---- MODULE Spec2Model ----
(***************************************************************************)
(* Speech-event orchestration pipeline of EchoScript.                      *)
(*                                                                         *)
(* The model follows the JavaScript run-to-completion semantics: every     *)
(* action is one synchronous run of the event loop, from an external event *)
(* (an IPC call, a timer, an I/O completion) or from the continuation of   *)
(* an `await`, up to the next `await` of every function it runs.  A        *)
(* suspended async function is a task: a stack of continuation labels,     *)
(* the innermost frame first.  A label names either an I/O wait (the       *)
(* frame resumes when the environment answers) or the continuation of an   *)
(* `await` on a call that has returned (a microtask).  Microtasks run      *)
(* before the next external event, in the order in which they were queued  *)
(* (the field `tick` of a task is its place in the microtask queue).       *)
(*                                                                         *)
(* The synchronous part of every function is an operator from the program  *)
(* state (a record `s` holding every mutable field) to the program state,  *)
(* so that a function calling another composes the two operators.          *)
(***************************************************************************)
EXTENDS Naturals, Sequences, FiniteSets, TLC

(* ---------------------------- bounds ----------------------------------- *)
MaxChunks == 2      \* audio chunks the microphone delivers in one run
MaxOps    == 2      \* host operations (start/stop/toggle/background) in one run
MaxTasks  == 2      \* async function activations suspended at the same time

(* ---------------------------- texts ------------------------------------ *)
\* A text is a sequence of one-character strings.
TriggerWord      == <<"s","a","n","a">>
DeactivatePhrase == <<"s","a","n","a"," ","c","l","o","s","e">>
PlainText        == <<"h","i">>
\* what the transcription backend may answer for a non-empty blob
Transcripts == {PlainText, TriggerWord, DeactivatePhrase}

VARIABLES
    \* SpeechRecognitionController
    state, backgroundListening, finalTextBuffer,
    \* GroqSTTClient / ElevenLabsSTTClient
    isConnected, audioBuffer, bufferDue, isProcessing,
    \* MicrophoneManager
    isRecording, micTimers,
    \* suspended async functions
    tasks,
    \* configuration and collaborators, fixed for one run
    provider, triggerEnabled, translationEnabled, crewAIEnabled,
    \* environment budget
    nextChunk, opsLeft,
    \* observation of what the program did (the host's and the OS's view)
    lastFlush, flushedChunks, sessionChecks, lastStart, lastStopSession, duringFlush,
    lastStop, lastPassError,
    \* one call of a function that keeps no state between calls, with its
    \* arguments and what it returned or did
    call

progVars == <<state, backgroundListening, finalTextBuffer, isConnected, audioBuffer,
              bufferDue, isProcessing, isRecording, micTimers, tasks>>
obsVars  == <<lastFlush, flushedChunks, sessionChecks, lastStart, lastStopSession,
              duringFlush, lastStop, lastPassError>>
envVars  == <<provider, triggerEnabled, translationEnabled, crewAIEnabled, call>>
vars     == <<progVars, obsVars, envVars, nextChunk, opsLeft>>

States == {"idle", "listening", "background_listening", "processing", "error"}
AllChecks == {"auth", "perm", "quota"}

(* ---------------------------- tasks ------------------------------------ *)
TaskIds == 1..MaxTasks

\* a free slot; also the locals of a fresh activation
NoTask == [stack |-> <<>>, kind |-> "", text |-> <<>>, heard |-> <<>>, rx |-> "",
           ret |-> "ok", evald |-> <<>>, signals |-> <<>>, opened |-> FALSE,
           micStarted |-> FALSE, cmds |-> <<>>, toType |-> <<>>,
           atStop |-> <<>>, inj |-> <<>>, tick |-> 0, from |-> "", errs |-> 0,
           snap |-> <<>>]

\* labels at which a frame waits for the environment
IOLabels == {"start:checkPermission", "start:trackUsage", "startBG:delay",
             "processBuffer:convert", "processBuffer:transcribe",
             "pFT:translate", "pFT:analyze", "pFT:nlType", "pFT:nlCmd", "pFT:nlDelay",
             "pFT:type"}

Live(s, t)  == s.tasks[t].stack # <<>>
Top(s, t)   == Head(s.tasks[t].stack)
FreeIds(s)  == {t \in TaskIds : ~Live(s, t)}
FreeSlot(s) == CHOOSE t \in FreeIds(s) : \A u \in FreeIds(s) : t <= u
Push(s, t, lbl) == [s EXCEPT !.tasks[t].stack = <<lbl>> \o @]
Pop(s, t)       == [s EXCEPT !.tasks[t].stack = Tail(@)]
SetRet(s, t, r) == [s EXCEPT !.tasks[t].ret = r]
\* a microtask is ready: some task's innermost frame is the continuation of a
\* finished call
MicroReady(s, t) == Live(s, t) /\ Top(s, t) \notin IOLabels
AnyMicro(s) == \E t \in TaskIds : MicroReady(s, t)

\* the program state as one record
Cur == [state |-> state, backgroundListening |-> backgroundListening,
        finalTextBuffer |-> finalTextBuffer, isConnected |-> isConnected,
        audioBuffer |-> audioBuffer, bufferDue |-> bufferDue,
        isProcessing |-> isProcessing, isRecording |-> isRecording,
        micTimers |-> micTimers, tasks |-> tasks,
        lastFlush |-> lastFlush, flushedChunks |-> flushedChunks,
        sessionChecks |-> sessionChecks, lastStart |-> lastStart,
        lastStopSession |-> lastStopSession, duringFlush |-> duringFlush,
        lastStop |-> lastStop, lastPassError |-> lastPassError]

\* finished activations give their slot back; the slots carry no meaning, so
\* the suspended activations are kept in a fixed order
KindRank(k) == CASE k = "start" -> 1 [] k = "stop" -> 2 [] k = "startBG" -> 3
                 [] k = "stopBG" -> 4 [] k = "flush" -> 5 [] k = "transcript" -> 6
                 [] OTHER -> 9
Rank(task) == IF task.stack = <<>> THEN 1000
              ELSE 100 * KindRank(task.kind) + 10 * Len(task.stack) + Len(Head(task.stack))
Reap(tk) == SortSeq([t \in TaskIds |-> IF tk[t].stack = <<>> THEN NoTask ELSE tk[t]],
                    LAMBDA a, b : Rank(a) < Rank(b))

\* the microtask queue after one run: the continuations that were queued and
\* have not run keep their order; behind them come the continuation of an
\* activation the run has spawned (its call returned first) and then the one
\* of the activation that ran
Requeue(old, new) ==
    LET ready == {i \in TaskIds : new[i].stack # <<>> /\ Head(new[i].stack) \notin IOLabels}
        key(i) == IF old[i].tick > 0 /\ new[i] = old[i] THEN old[i].tick
                  ELSE IF old[i].stack = <<>> THEN MaxTasks + 1 ELSE MaxTasks + 2
        pos(i) == Cardinality({j \in ready : key(j) < key(i) \/ (key(j) = key(i) /\ j < i)})
    IN [i \in TaskIds |-> [new[i] EXCEPT !.tick = IF i \in ready THEN pos(i) + 1 ELSE 0]]

Commit(s) ==
    /\ state' = s.state
    /\ backgroundListening' = s.backgroundListening
    /\ finalTextBuffer' = s.finalTextBuffer
    /\ isConnected' = s.isConnected
    /\ audioBuffer' = s.audioBuffer
    /\ bufferDue' = s.bufferDue
    /\ isProcessing' = s.isProcessing
    /\ isRecording' = s.isRecording
    /\ micTimers' = s.micTimers
    /\ tasks' = Reap(Requeue(tasks, s.tasks))
    /\ lastFlush' = s.lastFlush
    /\ flushedChunks' = s.flushedChunks
    /\ sessionChecks' = s.sessionChecks
    /\ lastStart' = s.lastStart
    /\ lastStopSession' = s.lastStopSession
    /\ duringFlush' = s.duringFlush
    /\ lastStop' = s.lastStop
    /\ lastPassError' = s.lastPassError

(* ------------------------ sequences and texts -------------------------- *)
Range(q) == {q[i] : i \in 1..Len(q)}

IsSpace(c) == c = " "
RECURSIVE TrimLeft(_)
TrimLeft(x) == IF x # <<>> /\ IsSpace(Head(x)) THEN TrimLeft(Tail(x)) ELSE x
RECURSIVE TrimRight(_)
TrimRight(x) == IF x # <<>> /\ IsSpace(x[Len(x)]) THEN TrimRight(SubSeq(x, 1, Len(x) - 1)) ELSE x
\* String.prototype.trim
Trim(x) == TrimRight(TrimLeft(x))

\* String.prototype.toLowerCase, on the alphabet of the model
LowerChar(c) == CASE c = "S" -> "s" [] c = "A" -> "a" [] c = "N" -> "n"
                  [] c = "H" -> "h" [] c = "I" -> "i" [] OTHER -> c
ToLower(x) == [i \in 1..Len(x) |-> LowerChar(x[i])]

\* \w of a JavaScript regular expression, on the alphabet of the model
IsWordChar(c) == c \in {"a","b","c","d","e","h","i","k","l","m","n","o","p","q","r","s","t",
                         "u","w","x","A","H","I","N","S"}

\* String.prototype.includes
ContainsPhrase(text, phrase) ==
    \E i \in 1..(Len(text) + 1) :
        /\ i + Len(phrase) - 1 <= Len(text)
        /\ SubSeq(text, i, i + Len(phrase) - 1) = phrase

\* new RegExp(`\\b${word}\\b`, 'i').test(text), for a word made of \w characters
ContainsWord(text, word) ==
    \E i \in 1..Len(text) :
        LET j == i + Len(word) - 1 IN
        /\ j <= Len(text)
        /\ ToLower(SubSeq(text, i, j)) = ToLower(word)
        /\ (i = 1 \/ ~IsWordChar(text[i - 1]))
        /\ (j = Len(text) \/ ~IsWordChar(text[j + 1]))

\* detect() that looks for the activate word before the deactivate phrase
DetectActivateFirst(text, enabled, caseSensitive) ==
    IF ~enabled \/ text = <<>> THEN "none"
    ELSE LET normalizedText       == IF caseSensitive THEN Trim(text) ELSE ToLower(Trim(text))
             normalizedTrigger    == IF caseSensitive THEN TriggerWord ELSE ToLower(TriggerWord)
             normalizedDeactivate == IF caseSensitive THEN DeactivatePhrase
                                     ELSE ToLower(DeactivatePhrase)
         IN IF ContainsWord(normalizedText, normalizedTrigger) THEN "activate"
            ELSE IF ContainsPhrase(normalizedText, normalizedDeactivate) THEN "deactivate"
            ELSE "none"

\* TriggerWordDetector.detect: "deactivate", "activate" or "none" (null)
Detect(text, enabled, caseSensitive) ==
    IF ~enabled \/ text = <<>> THEN "none"
    ELSE LET normalizedText       == IF caseSensitive THEN Trim(text) ELSE ToLower(Trim(text))
             normalizedTrigger    == IF caseSensitive THEN TriggerWord ELSE ToLower(TriggerWord)
             normalizedDeactivate == IF caseSensitive THEN DeactivatePhrase
                                     ELSE ToLower(DeactivatePhrase)
         IN IF ContainsPhrase(normalizedText, normalizedDeactivate) THEN "deactivate"
            ELSE IF ContainsWord(normalizedText, normalizedTrigger) THEN "activate"
            ELSE "none"

\* config.get('triggerWordCaseSensitive') || false
CaseSensitive == FALSE

\* words a transcript is made of: the activate word in three spellings, words
\* that contain it, the second word of the deactivate phrase, another word
SpokenWords == {<<"s","a","n","a">>, <<"S","a","n","a">>, <<"S","A","N","A">>,
                <<"s","a","n","a","s">>, <<"a","s","a","n","a">>,
                <<"c","l","o","s","e">>, <<"h","i">>}
MaxWords == 2
Utterances == UNION {[1..n -> SpokenWords] : n \in 1..MaxWords}
\* the words of an utterance joined by single spaces
RECURSIVE Join(_)
Join(words) == IF Len(words) = 0 THEN <<>>
               ELSE IF Len(words) = 1 THEN words[1]
               ELSE words[1] \o <<" ">> \o Join(Tail(words))

\* no call yet
NoCall == [fn |-> "none"]
\* triggerWordDetector.detect(text) on a detector configured with enabled and
\* caseSensitive; padded: the text has a space before and after
DetectCall(words, padded, enabled, caseSensitive) ==
    LET text == IF padded THEN <<" ">> \o Join(words) \o <<" ">> ELSE Join(words)
    IN [fn |-> "detect", words |-> words, text |-> text, enabled |-> enabled,
        caseSensitive |-> caseSensitive, result |-> Detect(text, enabled, caseSensitive)]

(* ------------------- standard processing of a transcript ---------------- *)
\* const commandWords = [...]: the phrases looked for at the end of a transcript,
\* in the order they are tried
CommandWords ==
    <<<<"n","e","w"," ","l","i","n","e">>,
      <<"s","e","l","e","c","t"," ","a","l","l">>,
      <<"q","u","e","s","t","i","o","n"," ","m","a","r","k">>,
      <<"e","x","c","l","a","m","a","t","i","o","n"," ","m","a","r","k">>,
      <<"e","x","c","l","a","m","a","t","i","o","n"," ","p","o","i","n","t">>,
      <<"o","p","e","n"," ","p","a","r","e","n","t","h","e","s","i","s">>,
      <<"c","l","o","s","e"," ","p","a","r","e","n","t","h","e","s","i","s">>,
      <<"o","p","e","n"," ","b","r","a","c","k","e","t">>,
      <<"c","l","o","s","e"," ","b","r","a","c","k","e","t">>,
      <<"s","e","n","t">>,
      <<"s","e","n","d">>,
      <<"e","n","t","e","r">>,
      <<"r","e","t","u","r","n">>,
      <<"t","a","b">>,
      <<"b","a","c","k","s","p","a","c","e">>,
      <<"d","e","l","e","t","e">>>>

\* CommandParser.parse(phrase).value for a phrase of the closed phrase table, ""
\* for a text that is not a command phrase
CommandToken(phrase) ==
    CASE phrase = <<"n","e","w"," ","l","i","n","e">> -> "enter"
      [] phrase = <<"s","e","l","e","c","t"," ","a","l","l">> -> "ctrl+a"
      [] phrase = <<"q","u","e","s","t","i","o","n"," ","m","a","r","k">> -> "shift+/"
      [] phrase = <<"e","x","c","l","a","m","a","t","i","o","n"," ","m","a","r","k">> -> "shift+1"
      [] phrase = <<"e","x","c","l","a","m","a","t","i","o","n"," ","p","o","i","n","t">> -> "shift+1"
      [] phrase = <<"o","p","e","n"," ","p","a","r","e","n","t","h","e","s","i","s">> -> "shift+9"
      [] phrase = <<"c","l","o","s","e"," ","p","a","r","e","n","t","h","e","s","i","s">> -> "shift+0"
      [] phrase = <<"o","p","e","n"," ","b","r","a","c","k","e","t">> -> "["
      [] phrase = <<"c","l","o","s","e"," ","b","r","a","c","k","e","t">> -> "]"
      [] phrase = <<"s","e","n","t">> -> "enter"
      [] phrase = <<"s","e","n","d">> -> "enter"
      [] phrase = <<"e","n","t","e","r">> -> "enter"
      [] phrase = <<"r","e","t","u","r","n">> -> "enter"
      [] phrase = <<"t","a","b">> -> "tab"
      [] phrase = <<"b","a","c","k","s","p","a","c","e">> -> "backspace"
      [] phrase = <<"d","e","l","e","t","e">> -> "backspace"
      [] OTHER -> ""

\* [.!?,;:] of the regular expressions built from the command words
IsPunct(c) == c \in {".", "!", "?", ",", ";", ":"}
RECURSIVE StripPunct(_)
StripPunct(x) == IF x # <<>> /\ IsPunct(x[Len(x)]) THEN StripPunct(SubSeq(x, 1, Len(x) - 1))
                 ELSE x
\* String.prototype.lastIndexOf, counted from 1; 0 when there is no occurrence
LastIndexOf(text, phrase) ==
    LET at == {i \in 1..Len(text) : /\ i + Len(phrase) - 1 <= Len(text)
                                    /\ SubSeq(text, i, i + Len(phrase) - 1) = phrase}
    IN IF at = {} THEN 0 ELSE CHOOSE i \in at : \A j \in at : j <= i
\* regex.test(normalizedText): the phrase, then \s*[.!?,;:]*, ends the text; a
\* single word also has a \b before it
EndsWithCommand(normalizedText, commandWord) ==
    LET core  == TrimRight(StripPunct(normalizedText))
        start == Len(core) - Len(commandWord) + 1
    IN /\ start >= 1
       /\ SubSeq(core, start, Len(core)) = commandWord
       /\ \/ ContainsPhrase(commandWord, <<" ">>)
          \/ start = 1
          \/ ~IsWordChar(core[start - 1])
\* the standard processing of processFinalTranscription, as the text it types
\* and the command tokens it executes
RECURSIVE TrailingCommand(_, _, _)
TrailingCommand(text, normalizedText, k) ==
    IF k > Len(CommandWords) THEN [typed |-> text, commands |-> <<>>]
    ELSE LET commandWord  == CommandWords[k]
             commandIndex == LastIndexOf(normalizedText, ToLower(commandWord))
         IN IF /\ EndsWithCommand(normalizedText, commandWord)
               /\ commandIndex # 0
               /\ CommandToken(commandWord) # ""
            THEN [typed    |-> Trim(SubSeq(text, 1, commandIndex - 1)),
                  commands |-> <<CommandToken(commandWord)>>]
            ELSE TrailingCommand(text, normalizedText, k + 1)
StandardProcessing(text, voiceCommandsEnabled) ==
    IF ~voiceCommandsEnabled THEN [typed |-> text, commands |-> <<>>]
    ELSE IF CommandToken(ToLower(Trim(text))) # ""
         THEN [typed |-> <<>>, commands |-> <<CommandToken(ToLower(Trim(text)))>>]
         ELSE TrailingCommand(text, ToLower(Trim(text)), 1)

\* words of a dictated transcript: two command words, one of them also with a
\* full stop, the two halves of a two-word command phrase, another word
DictatedWords == {<<"h","i">>, <<"s","e","n","d">>, <<"t","a","b">>, <<"t","a","b",".">>,
                  <<"n","e","w">>, <<"l","i","n","e">>}
Dictations == UNION {[1..n -> DictatedWords] : n \in 1..MaxWords}
\* the standard processing of one transcript
StandardCall(words, voiceCommandsEnabled) ==
    [fn |-> "standard", words |-> words, text |-> Join(words),
     voiceCommandsEnabled |-> voiceCommandsEnabled,
     result |-> StandardProcessing(Join(words), voiceCommandsEnabled)]

(* ------------------------- keyboard injection --------------------------- *)
\* command tokens as the key names between their '+' signs; "foo" is a name
\* that no key table knows
CommandTokens == {<<"enter">>, <<"tab">>, <<"ctrl", "a">>, <<"foo">>, <<"ctrl", "foo">>}
Platforms == {"windows", "x11", "wayland"}
\* getKey: the nut.js key of a key name, "null" for a name outside the table
GetKey(keyName) ==
    IF keyName \in {"enter", "backspace", "tab", "space", "ctrl", "shift", "alt", "delete",
                    "escape", "a", "c", "v", "x", "z", "y", "s"}
    THEN keyName ELSE "null"
\* getXdotoolKey: keyMap[keyName] || keyName
GetXdotoolKey(keyName) ==
    CASE keyName = "enter" -> "Return" [] keyName = "backspace" -> "BackSpace"
      [] keyName = "tab" -> "Tab" [] keyName = "delete" -> "Delete"
      [] keyName = "escape" -> "Escape" [] OTHER -> keyName
\* getYdotoolKey: keyMap[keyName] || 0
GetYdotoolKey(keyName) ==
    CASE keyName = "enter" -> 28 [] keyName = "backspace" -> 14 [] keyName = "tab" -> 15
      [] keyName = "space" -> 57 [] keyName = "ctrl" -> 29 [] keyName = "shift" -> 42
      [] keyName = "alt" -> 56 [] keyName = "delete" -> 111 [] keyName = "escape" -> 1
      [] keyName = "a" -> 30 [] keyName = "c" -> 46 [] keyName = "v" -> 47
      [] OTHER -> 0

\* what the daemon and the tool do during one executeLinuxCommand: the daemon
\* check and start before the command, the way the command ends, the daemon
\* check and start after a failure, the way the retry ends
DaemonRuns == [running0 : BOOLEAN, started0 : BOOLEAN, exec : {"ok", "daemon", "other"},
               running1 : BOOLEAN, started1 : BOOLEAN, retryOk : BOOLEAN]
\* the runs that differ on a platform: nut.js runs no tool, xdotool has no daemon
NoDaemon == [running0 |-> TRUE, started0 |-> TRUE, exec |-> "ok",
             running1 |-> TRUE, started1 |-> TRUE, retryOk |-> TRUE]
PlatformRuns(platform) ==
    CASE platform = "windows" -> {NoDaemon}
      [] platform = "x11" -> {[NoDaemon EXCEPT !.exec = e] : e \in {"ok", "daemon", "other"}}
      [] OTHER -> DaemonRuns
\* executeLinuxCommand: how often startYdotoold and exec(command) are called,
\* and whether the promise resolves
ExecuteLinuxCommand(isWayland, d) ==
    LET before == IF isWayland /\ ~d.running0 THEN 1 ELSE 0
    IN IF d.exec = "ok" THEN [starts |-> before, execs |-> 1, outcome |-> "resolved"]
       ELSE IF isWayland /\ d.exec = "daemon" /\ ~d.running1
            THEN IF d.started1
                 THEN [starts |-> before + 1, execs |-> 2,
                       outcome |-> IF d.retryOk THEN "resolved" ELSE "rejected"]
                 ELSE [starts |-> before + 1, execs |-> 1, outcome |-> "rejected"]
            ELSE [starts |-> before, execs |-> 1, outcome |-> "rejected"]
\* pressKeyLinux / executeShortcutLinux: the key names or codes on the command line
LinuxKeys(keys, isWayland) ==
    [i \in 1..Len(keys) |-> IF isWayland THEN GetYdotoolKey(keys[i]) ELSE GetXdotoolKey(keys[i])]
\* executeCommand(command): the nut.js keys pressed, the command line handed to
\* the shell, and the calls executeLinuxCommand makes
ExecuteCommand(keys, platform, d) ==
    IF platform = "windows"
    THEN LET nut == [i \in 1..Len(keys) |-> GetKey(keys[i])]
         IN [pressed |-> IF \E i \in 1..Len(nut) : nut[i] = "null" THEN <<>> ELSE nut,
             line |-> <<>>, starts |-> 0, execs |-> 0, outcome |-> "resolved"]
    ELSE LET run == ExecuteLinuxCommand(platform = "wayland", d)
         IN [pressed |-> <<>>, line |-> LinuxKeys(keys, platform = "wayland"),
             starts |-> run.starts, execs |-> run.execs, outcome |-> run.outcome]
\* textInjector.executeCommand(command) on one platform
ExecuteCall(keys, platform, d) ==
    [fn |-> "execute", keys |-> keys, platform |-> platform, daemon |-> d,
     result |-> ExecuteCommand(keys, platform, d)]

(* --------------------------- microphone -------------------------------- *)
\* MicrophoneManager.start: capture starts from a 500 ms timer
MicStart(s) == IF s.isRecording THEN s ELSE [s EXCEPT !.micTimers = @ + 1]
\* MicrophoneManager.stop
MicStop(s) == IF ~s.isRecording THEN s ELSE [s EXCEPT !.isRecording = FALSE]

(* ------------------ transcription client (both adapters) --------------- *)
\* startSession(): synchronous; `checks` is what the caller verified
StartSession(s, checks) ==
    IF s.isConnected THEN s
    ELSE [s EXCEPT !.audioBuffer = <<>>, !.bufferDue = FALSE, !.isConnected = TRUE,
                   !.sessionChecks = checks]

\* processBuffer() that submits the newest chunk of the window only
ProcessBufferEntryNewestOnly(s, t) ==
    IF s.audioBuffer = <<>> \/ s.isProcessing THEN s
    ELSE Push([s EXCEPT !.isProcessing = TRUE,
                        !.audioBuffer = <<>>,
                        !.bufferDue = FALSE,
                        !.flushedChunks = @ \cup Range(s.audioBuffer),
                        !.lastFlush = [blob |-> <<s.audioBuffer[Len(s.audioBuffer)]>>,
                                       outcome |-> "pending", errorEmitted |-> FALSE,
                                       again |-> Range(s.audioBuffer) \cap s.flushedChunks # {}]],
              t, IF provider = "groq" THEN "processBuffer:transcribe"
                 ELSE "processBuffer:convert")

\* processBuffer() without its `|| this.isProcessing` guard
ProcessBufferEntryUnguarded(s, t) ==
    IF s.audioBuffer = <<>> THEN s
    ELSE Push([s EXCEPT !.isProcessing = TRUE,
                        !.audioBuffer = <<>>,
                        !.bufferDue = FALSE,
                        !.flushedChunks = @ \cup Range(s.audioBuffer),
                        !.lastFlush = [blob |-> s.audioBuffer, outcome |-> "pending",
                                       errorEmitted |-> FALSE,
                                       again |-> Range(s.audioBuffer) \cap s.flushedChunks # {}]],
              t, IF provider = "groq" THEN "processBuffer:transcribe"
                 ELSE "processBuffer:convert")

\* processBuffer() up to its first await: takes the buffer and starts the
\* conversion (ElevenLabs) or the transcription request (Groq)
ProcessBufferEntry(s, t) ==
    IF s.audioBuffer = <<>> \/ s.isProcessing THEN s
    ELSE Push([s EXCEPT !.isProcessing = TRUE,
                        !.audioBuffer = <<>>,
                        !.bufferDue = FALSE,
                        !.flushedChunks = @ \cup Range(s.audioBuffer),
                        !.lastFlush = [blob |-> s.audioBuffer, outcome |-> "pending",
                                       errorEmitted |-> FALSE,
                                       again |-> Range(s.audioBuffer) \cap s.flushedChunks # {}]],
              t, IF provider = "groq" THEN "processBuffer:transcribe"
                 ELSE "processBuffer:convert")

\* the end of stopSession(): lines after the final flush
StopSessionFinish(s, t) ==
    [s EXCEPT !.isConnected = FALSE, !.audioBuffer = <<>>, !.bufferDue = FALSE,
              !.lastStopSession =
                  [called |-> TRUE, wasConnected |-> TRUE, closed |-> TRUE, changed |-> TRUE,
                   atEntry |-> s.tasks[t].atStop,
                   flushed |-> Range(s.tasks[t].atStop) \subseteq s.flushedChunks]]

\* stopSession() without its `if (!this.isConnected) return` guard
StopSessionEntryUnguarded(s, t) ==
    IF s.audioBuffer # <<>>
    THEN ProcessBufferEntry(
             Push([s EXCEPT !.tasks[t].atStop = s.audioBuffer], t,
                  "stopSession:afterProcessBuffer"), t)
    ELSE StopSessionFinish([s EXCEPT !.tasks[t].atStop = <<>>], t)

\* stopSession() up to its first await
StopSessionEntry(s, t) ==
    IF ~s.isConnected THEN s
    ELSE IF s.audioBuffer # <<>>
         THEN ProcessBufferEntry(
                  Push([s EXCEPT !.tasks[t].atStop = s.audioBuffer], t,
                       "stopSession:afterProcessBuffer"), t)
         ELSE StopSessionFinish([s EXCEPT !.tasks[t].atStop = <<>>], t)

Client(s) == <<s.isConnected, s.audioBuffer, s.bufferDue, s.isProcessing, s.lastFlush>>

NoStopSession == [called |-> FALSE, wasConnected |-> FALSE, closed |-> FALSE,
                  changed |-> FALSE, atEntry |-> <<>>, flushed |-> TRUE]

\* a call of stopSession(), observed: what a call on a session that is not
\* connected did
StopSessionCall(s, t) ==
    IF s.isConnected THEN StopSessionEntry(s, t)
    ELSE LET r == StopSessionEntry([s EXCEPT !.lastStopSession = NoStopSession], t)
         IN [r EXCEPT !.lastStopSession =
                   [called |-> TRUE, wasConnected |-> FALSE,
                    closed |-> r.lastStopSession.closed,
                    changed |-> Client(r) # Client(s), atEntry |-> <<>>, flushed |-> TRUE]]

\* sendAudio(chunk): buffers, and flushes when the window has elapsed
SendAudio(s, c) ==
    IF ~s.isConnected THEN s
    ELSE LET s1 == [s EXCEPT !.audioBuffer = Append(@, c),
                             !.duringFlush = IF s.isProcessing THEN @ \cup {c} ELSE @]
         IN IF s1.bufferDue /\ ~s1.isProcessing
            THEN ProcessBufferEntry([s1 EXCEPT !.tasks[FreeSlot(s1)] =
                                         [NoTask EXCEPT !.kind = "flush"]], FreeSlot(s1))
            ELSE s1

(* ------------------- SpeechRecognitionController ----------------------- *)
SetState(s, newState) == [s EXCEPT !.state = newState]

\* a call that is not awaited runs as an activation of its own
Spawn(s, kind) == [s EXCEPT !.tasks[FreeSlot(s)] = [NoTask EXCEPT !.kind = kind]]

\* what the host sees of the controller: the state, the session, the
\* microphone (capturing, or scheduled to), the background flag, the accumulator
View(s) == [state |-> s.state, connected |-> s.isConnected,
            recording |-> s.isRecording, mic |-> s.isRecording \/ s.micTimers > 0,
            background |-> s.backgroundListening, accEmpty |-> s.finalTextBuffer = <<>>]

\* the view of a controller that has done nothing yet
IdleView == [state |-> "idle", connected |-> FALSE, recording |-> FALSE, mic |-> FALSE,
             background |-> FALSE, accEmpty |-> TRUE]

\* a request that ends the listening episode the last start() has begun
EndEpisode(s) == [s EXCEPT !.lastStart.live = FALSE]

\* lastStop.micAsked: microphoneManager.start() has been called since the
\* last call of microphoneManager.stop() by stop(); lastStop.owed: 'started'
\* has been emitted and no 'stopped' since
MicAsked(s, asked) == [s EXCEPT !.lastStop.micAsked = asked]

\* stop() without its `state === 'idle'` guard
StopEntryUnguarded(s, t) ==
    StopSessionCall(Push(MicStop(MicAsked(EndEpisode(s), FALSE)), t,
                         "stop:afterStopSession"), t)

\* stop() up to its first await
StopEntry(s, t) ==
    IF s.state = "idle" THEN SetRet(s, t, "ok")
    ELSE StopSessionCall(Push(MicStop(MicAsked(EndEpisode(s), FALSE)), t,
                              "stop:afterStopSession"), t)

\* stop() after `await this.sttClient.stopSession()`
StopAfterStopSession(s, t) ==
    LET s1 == SetRet(SetState(Pop(s, t), "idle"), t, "ok")
    IN [s1 EXCEPT !.lastStop = [done |-> TRUE, view |-> View(s1),
                                micAsked |-> s1.lastStop.micAsked,
                                micAskedSince |-> s1.lastStop.micAsked,
                                owed |-> FALSE]]

\* handleError(error): the cleanup stop() is not awaited
HandleError(s) ==
    LET s1 == Spawn(SetState(EndEpisode(s), "error"), "stop")
    IN StopEntry(s1, FreeSlot(s1))

\* stopBackgroundListening() up to its first await
StopBackgroundEntry(s, t) ==
    IF ~s.backgroundListening THEN SetRet(s, t, "ok")
    ELSE StopSessionCall(Push(MicStop(EndEpisode(s)), t, "stopBG:afterStopSession"), t)

\* stopBackgroundListening() after `await this.sttClient.stopSession()`
StopBackgroundAfterStopSession(s, t) ==
    SetRet(SetState([Pop(s, t) EXCEPT !.backgroundListening = FALSE], "idle"), t, "ok")

\* the failures the capture window reports with 'audio-error'
MicErrorKinds == {"deviceNotFound", "permissionDenied", "deviceBusy"}
\* error.message.includes('device not found')
IsDeviceNotFound(kind) == kind = "deviceNotFound"
\* microphoneManager.on('error', ...): a missing device stops background
\* listening (not awaited) and sets idle; any other failure goes to handleError
MicrophoneError(s, kind) ==
    IF IsDeviceNotFound(kind)
    THEN LET s1 == IF s.backgroundListening
                   THEN StopBackgroundEntry(Spawn(s, "stopBG"), FreeSlot(s))
                   ELSE s
         IN SetState(EndEpisode(s1), "idle")
    ELSE HandleError(s)

\* startBackgroundListening() up to its first await
StartBackgroundEntry(s, t) ==
    IF s.backgroundListening THEN SetRet(s, t, "ok")
    ELSE Push(StartSession([SetState(EndEpisode(s), "background_listening")
                               EXCEPT !.backgroundListening = TRUE,
                                      !.finalTextBuffer = <<>>], {}),
              t, "startBG:afterStartSession")

\* startBackgroundListening() after `await this.sttClient.startSession()`
StartBackgroundAfterStartSession(s, t) ==
    Push(MicAsked(MicStart(Pop(s, t)), TRUE), t, "startBG:delay")

\* startBackgroundListening() after `await this.delay(1000)`
StartBackgroundAfterDelay(s, t) == SetRet(Pop(s, t), t, "ok")

(* start() *)
NoStart == [evald |-> <<>>, signals |-> <<>>, opened |-> FALSE, micStarted |-> FALSE,
            outcome |-> "none", from |-> "", live |-> FALSE, view |-> <<>>]

\* what a start() did, as its caller sees it when it returns or throws; a
\* start() that returns at once leaves the running episode as it is
RecordStart(s, t, outcome) ==
    [s EXCEPT !.lastStart = [evald |-> s.tasks[t].evald, signals |-> s.tasks[t].signals,
                             opened |-> s.tasks[t].opened,
                             micStarted |-> s.tasks[t].micStarted, outcome |-> outcome,
                             from |-> s.tasks[t].from,
                             live |-> IF outcome = "noop" THEN s.lastStart.live
                                      ELSE outcome = "started",
                             view |-> IF outcome = "started" THEN <<View(s)>> ELSE <<>>]]

Evaluated(s, t, check) == [s EXCEPT !.tasks[t].evald = Append(@, check)]

\* a failed precondition: emit the signal, throw; catch: handleError, rethrow
StartFail(s, t, signal) ==
    HandleError(RecordStart([s EXCEPT !.tasks[t].signals = Append(@, signal),
                                      !.tasks[t].ret = "err",
                                      !.tasks[t].errs = @ + 1], t, "failed"))

\* start() without `this.finalTextBuffer = ''`
StartMainKeepsAccumulator(s, t) ==
    LET s1 == SetState(s, "listening")
        s2 == StartSession(s1, Range(s.tasks[t].evald))
    IN Push([s2 EXCEPT !.tasks[t].opened = ~s.isConnected /\ s2.isConnected],
            t, "start:afterStartSession")

\* start() from `this.setState('listening')` to `await this.sttClient.startSession()`
StartMain(s, t) ==
    LET s1 == [SetState(s, "listening") EXCEPT !.finalTextBuffer = <<>>]
        s2 == StartSession(s1, Range(s.tasks[t].evald))
    IN Push([s2 EXCEPT !.tasks[t].opened = ~s.isConnected /\ s2.isConnected],
            t, "start:afterStartSession")

\* start() up to its first await
StartEntry(s0, t, authenticated) ==
    LET s == [s0 EXCEPT !.tasks[t].evald = <<>>, !.tasks[t].signals = <<>>,
                        !.tasks[t].opened = FALSE, !.tasks[t].micStarted = FALSE,
                        !.tasks[t].from = s0.state]
    IN IF s.state = "listening" THEN RecordStart(SetRet(s, t, "ok"), t, "noop")
       ELSE IF ~authenticated
            THEN StartFail(Evaluated(s, t, "auth"), t, "authenticationRequired")
            ELSE Push(Evaluated(s, t, "auth"), t, "start:checkPermission")

\* start() that emits activationRequired and goes on to the quota check
StartAfterPermissionContinues(s, t, hasPermission) ==
    LET s1 == Evaluated(Pop(s, t), t, "perm") IN
    IF ~hasPermission
    THEN Push([s1 EXCEPT !.tasks[t].signals = Append(@, "activationRequired")],
              t, "start:trackUsage")
    ELSE Push(s1, t, "start:trackUsage")

\* start() after `await authService.checkPermission('stt')`
StartAfterPermission(s, t, hasPermission) ==
    IF ~hasPermission
    THEN StartFail(Evaluated(Pop(s, t), t, "perm"), t, "activationRequired")
    ELSE Push(Evaluated(Pop(s, t), t, "perm"), t, "start:trackUsage")

\* start() that opens the session before it looks at the quota answer
StartAfterUsageOpensFirst(s, t, allowed) ==
    LET s1 == Evaluated(Pop(s, t), t, "quota")
        s2 == [StartSession(s1, Range(s1.tasks[t].evald))
                  EXCEPT !.tasks[t].opened = ~s1.isConnected]
    IN IF ~allowed THEN StartFail(s2, t, "tokenLimitExceeded")
       ELSE IF s2.backgroundListening
            THEN StopBackgroundEntry(Push(s2, t, "start:afterStopBG"), t)
            ELSE StartMain(s2, t)

\* start() after `await tokenTracker.trackDeepgramUsage()`
StartAfterUsage(s, t, allowed) ==
    LET s1 == Evaluated(Pop(s, t), t, "quota") IN
    IF ~allowed THEN StartFail(s1, t, "tokenLimitExceeded")
    ELSE IF s1.backgroundListening
         THEN StopBackgroundEntry(Push(s1, t, "start:afterStopBG"), t)
         ELSE StartMain(s1, t)

\* start() after `await this.stopBackgroundListening()`
StartAfterStopBackground(s, t) == StartMain(Pop(s, t), t)

\* start() after `await this.sttClient.startSession()`
StartAfterStartSession(s, t) ==
    LET s1 == MicAsked(MicStart(Pop(s, t)), TRUE)
    IN RecordStart([s1 EXCEPT !.tasks[t].micStarted = s1.micTimers > s.micTimers,
                              !.tasks[t].ret = "ok",
                              !.lastStop.owed = TRUE], t, "started")

(* processFinalTranscription(text) *)
Inject(s, t, kind, val) ==
    [s EXCEPT !.tasks[t].inj = Append(@, [kind |-> kind, val |-> val,
                                          acc |-> s.finalTextBuffer # <<>>])]

\* `this.finalTextBuffer.length > 0 ? ' ' + text : text`
TextToType(s, text) == IF Len(s.finalTextBuffer) > 0 THEN <<" ">> \o text ELSE text

\* standard processing, for a transcript that neither is nor ends with a
\* command phrase: type the text
PFTStandard(s, t) ==
    Push([s EXCEPT !.tasks[t].toType = TextToType(s, s.tasks[t].text)], t, "pFT:type")

\* after `await this.textInjector.typeText(textToType)` of standard processing
PFTAfterType(s, t, ok) ==
    IF ok THEN LET tt == s.tasks[t].toType
               IN SetRet([Inject(Pop(s, t), t, "text", tt)
                             EXCEPT !.finalTextBuffer = @ \o tt], t, "ok")
    ELSE SetRet(Pop(s, t), t, "err")

\* the natural-language branch, once the analysis is known
PFTNLCommands(s, t) ==
    IF s.tasks[t].cmds # <<>> THEN Push(s, t, "pFT:nlCmd") ELSE SetRet(s, t, "ok")

PFTNLText(s, t) ==
    IF Trim(s.tasks[t].toType) # <<>>
    THEN Push([s EXCEPT !.tasks[t].toType = TextToType(s, s.tasks[t].toType)], t, "pFT:nlType")
    ELSE PFTNLCommands(s, t)

\* after `await this.crewAIAgent.analyze(text)`
PFTAfterAnalyze(s, t, analysis) ==
    PFTNLText([Pop(s, t) EXCEPT !.tasks[t].toType = analysis.text,
                                !.tasks[t].cmds = analysis.commands], t)

\* after `await this.textInjector.typeText(textToType)` of the NL branch
PFTAfterNLType(s, t, ok) ==
    IF ok THEN LET tt == s.tasks[t].toType
               IN PFTNLCommands([Inject(Pop(s, t), t, "text", tt)
                                    EXCEPT !.finalTextBuffer = @ \o tt], t)
    ELSE PFTStandard(Pop(s, t), t)

\* after `await this.textInjector.executeCommand(command)` of the NL branch
PFTAfterNLCommand(s, t, ok) ==
    IF ok THEN LET command == Head(s.tasks[t].cmds)
                   s1 == Inject(Pop(s, t), t, "cmd", command)
               IN Push(IF command = "enter" THEN [s1 EXCEPT !.finalTextBuffer = <<>>] ELSE s1,
                       t, "pFT:nlDelay")
    ELSE PFTStandard(Pop(s, t), t)

\* after `await this.delay(100)` between two commands
PFTAfterNLDelay(s, t) ==
    PFTNLCommands([Pop(s, t) EXCEPT !.tasks[t].cmds = Tail(@)], t)

\* from the translation stage on
PFTAfterTranslate(s, t) ==
    IF crewAIEnabled THEN Push(s, t, "pFT:analyze") ELSE PFTStandard(s, t)

\* after `await this.translationService.translateToEnglish(text)`
PFTTranslated(s, t, translated) ==
    PFTAfterTranslate([Pop(s, t) EXCEPT !.tasks[t].text = translated], t)

PFTPipeline(s, t) ==
    IF translationEnabled THEN Push(s, t, "pFT:translate") ELSE PFTAfterTranslate(s, t)

\* processFinalTranscription(text) without its deactivate check in listening
PFTEntryNoDeactivate(s, t) ==
    LET text == s.tasks[t].text
        triggerResult == Detect(text, triggerEnabled, CaseSensitive)
    IN IF s.state = "background_listening" /\ triggerEnabled
       THEN CASE triggerResult = "activate" ->
                     StopBackgroundEntry(Push(s, t, "pFT:afterStopBG"), t)
              [] triggerResult = "deactivate" ->
                     StopEntry(Push(s, t, "pFT:afterStop"), t)
              [] OTHER -> SetRet(s, t, "ok")
       ELSE PFTPipeline(s, t)

\* processFinalTranscription(text) up to its first await
PFTEntry(s, t) ==
    LET text == s.tasks[t].text
        triggerResult == Detect(text, triggerEnabled, CaseSensitive)
    IN IF s.state = "background_listening" /\ triggerEnabled
       THEN CASE triggerResult = "activate" ->
                     StopBackgroundEntry(Push(s, t, "pFT:afterStopBG"), t)
              [] triggerResult = "deactivate" ->
                     StopEntry(Push(s, t, "pFT:afterStop"), t)
              [] OTHER -> SetRet(s, t, "ok")
       ELSE IF s.state = "listening" /\ triggerEnabled /\ triggerResult = "deactivate"
            THEN StopEntry(Push(s, t, "pFT:afterStop"), t)
            ELSE PFTPipeline(s, t)

\* an activate trigger that stops background listening and does not call start()
PFTAfterStopBackgroundNoStart(s, t, authenticated) ==
    SetRet(Push(Pop(s, t), t, "pFT:afterStart"), t, "ok")

\* after `await this.stopBackgroundListening()` of an activate trigger
PFTAfterStopBackground(s, t, authenticated) ==
    StartEntry(Push(Pop(s, t), t, "pFT:afterStart"), t, authenticated)

\* after `await this.start()` of an activate trigger; a rejected start()
\* propagates
PFTAfterStart(s, t) ==
    IF s.tasks[t].ret = "err" THEN Pop(s, t)
    ELSE [Pop(s, t) EXCEPT !.tasks[t].snap = <<View(s)>>]

\* after `await this.stop()` of a deactivate trigger
PFTAfterStop(s, t) == SetRet(Pop(s, t), t, "ok")

\* handleTranscription(data), called by the client's 'transcription' event
HandleTranscription(s, text) ==
    LET t  == FreeSlot(s)
        s1 == [s EXCEPT !.tasks[t] = [NoTask EXCEPT !.kind = "transcript", !.text = text,
                                                    !.heard = text, !.rx = s.state]]
    IN PFTEntry(Push(s1, t, "hT:afterPFT"), t)

\* handleTranscription after `await this.processFinalTranscription(text, true)`
HandleTranscriptionAfterPFT(s, t) ==
    IF s.tasks[t].ret = "err"
    THEN LET r == HandleError(Pop(s, t))
         IN [r EXCEPT !.lastPassError = [events |-> s.tasks[t].errs + 1, view |-> View(r)]]
    ELSE Pop(s, t)

\* handleAudioData(audioData) that accepts audio in listening only
HandleAudioDataListeningOnly(s, c) ==
    IF s.state # "listening" THEN s
    ELSE IF ~s.isConnected THEN s
    ELSE SendAudio(s, c)

\* handleAudioData(audioData)
HandleAudioData(s, c) ==
    IF s.state # "listening" /\ s.state # "background_listening" THEN s
    ELSE IF ~s.isConnected THEN s
    ELSE SendAudio(s, c)

(* the rest of processBuffer() *)
\* processBuffer() resumes: its frame is left, and what it does before
\* `finally` runs while isProcessing is still true
SetOutcome(s, t, outcome, emitted) ==
    [Pop(s, t) EXCEPT !.lastFlush.outcome = outcome, !.lastFlush.errorEmitted = emitted]

\* finally { this.isProcessing = false }
FlushFinally(s) == [s EXCEPT !.isProcessing = FALSE]

\* the transcription request answered with a text
FlushTranscribed(s, t, text) ==
    IF Trim(text) # <<>>
    THEN FlushFinally(HandleTranscription(SetOutcome(s, t, "ok", FALSE), Trim(text)))
    ELSE FlushFinally(SetOutcome(s, t, "empty", FALSE))

\* the conversion or the transcription request failed: the Groq client logs
\* the failure, the ElevenLabs client emits 'error', which the controller
\* handles with handleError
FlushFailed(s, t) ==
    IF provider = "groq"
    THEN FlushFinally(SetOutcome(s, t, "fail", FALSE))
    ELSE FlushFinally(HandleError(SetOutcome(s, t, "fail", TRUE)))

\* ElevenLabs: convertPCMtoMP3 resolved, transcribeAudio is called
FlushConverted(s, t) == Push(Pop(s, t), t, "processBuffer:transcribe")

\* stopSession() after `await this.processBuffer()`
StopSessionAfterProcessBuffer(s, t) == StopSessionFinish(Pop(s, t), t)

(* ----------------------------- actions --------------------------------- *)
\* what the chat completion of the language-model backend may come to: the
\* call rejects, the content holds no JSON object, the content is not valid
\* JSON, or it is a JSON object with or without a "text" key
Responses(text) ==
    {[kind |-> "rejected"], [kind |-> "noJson"], [kind |-> "badJson"],
     [kind |-> "json", hasText |-> TRUE, text |-> text, commands |-> <<"tab", "send it">>],
     [kind |-> "json", hasText |-> TRUE, text |-> <<>>, commands |-> <<"enter">>],
     [kind |-> "json", hasText |-> FALSE, text |-> <<>>, commands |-> <<"jump">>]}
FailedResponses == {[kind |-> "rejected"], [kind |-> "noJson"], [kind |-> "badJson"]}

\* analyze(): the synonym table and the whitelist of simple keys; "" for a
\* command string that is dropped
NormalizeCommand(cmd) ==
    CASE cmd \in {"sent", "send", "send it", "return", "new line"} -> "enter"
      [] cmd \in {"enter", "tab", "backspace", "delete", "space", "escape", "esc"} -> cmd
      [] OTHER -> ""
KeptCommand(cmd) == cmd # ""
\* CrewAIAgent.analyze of an enabled agent with a non-empty transcript, with a
\* failing backend that answers with the transcript in place of the empty text
AnalyzeEmptyOnFailure(transcribedText, response) ==
    IF response.kind # "json" THEN [text |-> <<>>, commands |-> <<>>]
    ELSE [text     |-> Trim(IF response.hasText THEN response.text ELSE transcribedText),
          commands |-> SelectSeq([i \in 1..Len(response.commands) |->
                                     NormalizeCommand(response.commands[i])], KeptCommand)]
\* CrewAIAgent.analyze of an enabled agent with a non-empty transcript: every
\* throw between the request and the return lands in the catch
Analyze(transcribedText, response) ==
    IF response.kind # "json" THEN [text |-> transcribedText, commands |-> <<>>]
    ELSE [text     |-> Trim(IF response.hasText THEN response.text ELSE transcribedText),
          commands |-> SelectSeq([i \in 1..Len(response.commands) |->
                                     NormalizeCommand(response.commands[i])], KeptCommand)]
\* what the natural-language backend may extract from a transcript
Analyses(text) == {Analyze(text, response) : response \in Responses(text)}

\* the configurations explored: both transcription providers with trigger
\* detection on and off, and one with translation and intent extraction on
Plain(p, trig) == [provider |-> p, triggerEnabled |-> trig,
                   translationEnabled |-> FALSE, crewAIEnabled |-> FALSE]
Deployments == {Plain(p, trig) : p \in {"groq", "elevenlabs"}, trig \in BOOLEAN}
               \cup {[provider |-> "groq", triggerEnabled |-> TRUE,
                       translationEnabled |-> TRUE, crewAIEnabled |-> TRUE]}

Init ==
    /\ state = "idle" /\ backgroundListening = FALSE /\ finalTextBuffer = <<>>
    /\ isConnected = FALSE /\ audioBuffer = <<>> /\ bufferDue = FALSE /\ isProcessing = FALSE
    /\ isRecording = FALSE /\ micTimers = 0
    /\ tasks = [t \in TaskIds |-> NoTask]
    /\ \E d \in Deployments :
           /\ provider = d.provider /\ triggerEnabled = d.triggerEnabled
           /\ translationEnabled = d.translationEnabled /\ crewAIEnabled = d.crewAIEnabled
    /\ nextChunk = 1 /\ opsLeft = MaxOps
    /\ lastFlush = [blob |-> <<>>, outcome |-> "none", errorEmitted |-> FALSE,
                    again |-> FALSE]
    /\ flushedChunks = {}
    /\ sessionChecks = {}
    /\ lastStart = NoStart
    /\ lastStopSession = NoStopSession
    /\ duringFlush = {}
    /\ lastStop = [done |-> FALSE, view |-> IdleView, micAsked |-> FALSE,
                   micAskedSince |-> FALSE, owed |-> FALSE]
    /\ lastPassError = [events |-> 0, view |-> IdleView]
    /\ call = NoCall

Room == FreeIds(Cur) # {}
\* a slot is free once the innermost frame of task t is left
RoomAfter(t) == FreeIds(Pop(Cur, t)) # {}
\* an external event is taken only when no microtask is pending
Macro == ~AnyMicro(Cur)
\* task t is suspended at lbl and, for a continuation, is the first of the queue
Waiting(t, lbl) == /\ tasks[t].stack # <<>> /\ Head(tasks[t].stack) = lbl
                   /\ lbl \in IOLabels \/ tasks[t].tick = 1

Same == UNCHANGED <<envVars, nextChunk, opsLeft>>
HostOp == /\ Macro /\ Room /\ opsLeft > 0
          /\ opsLeft' = opsLeft - 1
          /\ UNCHANGED <<envVars, nextChunk>>

(* host operations *)
Start ==
    /\ HostOp
    /\ \E auth \in BOOLEAN : Commit(StartEntry(Spawn(Cur, "start"), FreeSlot(Cur), auth))
Stop == HostOp /\ Commit(StopEntry(Spawn(Cur, "stop"), FreeSlot(Cur)))
Toggle ==
    /\ HostOp
    /\ \E auth \in BOOLEAN :
           Commit(IF state = "idle" THEN StartEntry(Spawn(Cur, "start"), FreeSlot(Cur), auth)
                  ELSE StopEntry(Spawn(Cur, "stop"), FreeSlot(Cur)))
StartBackgroundListening ==
    HostOp /\ Commit(StartBackgroundEntry(Spawn(Cur, "startBG"), FreeSlot(Cur)))
StopBackgroundListening ==
    HostOp /\ Commit(StopBackgroundEntry(Spawn(Cur, "stopBG"), FreeSlot(Cur)))

(* microphone *)
\* the 500 ms timer of MicrophoneManager.start fires
MicTimerFires ==
    /\ Macro /\ micTimers > 0
    /\ Commit([Cur EXCEPT !.micTimers = @ - 1, !.isRecording = TRUE])
    /\ Same

\* an 'audio-data' message from the capture window
MicAudio ==
    /\ Macro /\ Room /\ isRecording /\ nextChunk <= MaxChunks
    /\ Commit(HandleAudioData(Cur, nextChunk))
    /\ nextChunk' = nextChunk + 1
    /\ UNCHANGED <<envVars, opsLeft>>

\* an 'audio-error' message from the capture window
MicError ==
    /\ Macro /\ Room /\ opsLeft > 0 /\ (isRecording \/ micTimers > 0)
    /\ \E kind \in MicErrorKinds : Commit(MicrophoneError(Cur, kind))
    /\ opsLeft' = opsLeft - 1
    /\ UNCHANGED <<envVars, nextChunk>>

\* the buffer window (bufferDuration) elapses
Tick ==
    /\ Macro /\ isConnected /\ ~bufferDue
    /\ Commit([Cur EXCEPT !.bufferDue = TRUE])
    /\ Same

(* answers of the environment *)
PermissionAnswered(t) ==
    /\ Macro /\ Waiting(t, "start:checkPermission")
    /\ \E has \in BOOLEAN : (has \/ Room) /\ Commit(StartAfterPermission(Cur, t, has))
    /\ Same
UsageAnswered(t) ==
    /\ Macro /\ Waiting(t, "start:trackUsage")
    /\ \E allowed \in BOOLEAN : (allowed \/ Room) /\ Commit(StartAfterUsage(Cur, t, allowed))
    /\ Same
BackgroundDelayElapsed(t) ==
    /\ Macro /\ Waiting(t, "startBG:delay")
    /\ Commit(StartBackgroundAfterDelay(Cur, t))
    /\ Same
Converted(t) ==
    /\ Macro /\ Waiting(t, "processBuffer:convert")
    /\ Commit(FlushConverted(Cur, t))
    /\ Same
FlushFails(t) ==
    /\ Macro
    /\ Waiting(t, "processBuffer:convert") \/ Waiting(t, "processBuffer:transcribe")
    /\ RoomAfter(t)
    /\ Commit(FlushFailed(Cur, t))
    /\ Same
Transcribed(t) ==
    /\ Macro /\ Waiting(t, "processBuffer:transcribe") /\ RoomAfter(t)
    /\ \E text \in Transcripts \cup {<<>>} : Commit(FlushTranscribed(Cur, t, text))
    /\ Same
Translated(t) ==
    /\ Macro /\ Waiting(t, "pFT:translate")
    /\ \E translated \in {tasks[t].text, PlainText} : Commit(PFTTranslated(Cur, t, translated))
    /\ Same
Analyzed(t) ==
    /\ Macro /\ Waiting(t, "pFT:analyze")
    /\ \E a \in Analyses(tasks[t].text) : Commit(PFTAfterAnalyze(Cur, t, a))
    /\ Same
NLTyped(t) ==
    /\ Macro /\ Waiting(t, "pFT:nlType")
    /\ \E ok \in BOOLEAN : Commit(PFTAfterNLType(Cur, t, ok))
    /\ Same
NLCommandDone(t) ==
    /\ Macro /\ Waiting(t, "pFT:nlCmd")
    /\ \E ok \in BOOLEAN : Commit(PFTAfterNLCommand(Cur, t, ok))
    /\ Same
NLDelayElapsed(t) ==
    /\ Macro /\ Waiting(t, "pFT:nlDelay")
    /\ Commit(PFTAfterNLDelay(Cur, t))
    /\ Same
Typed(t) ==
    /\ Macro /\ Waiting(t, "pFT:type")
    /\ \E ok \in BOOLEAN : Commit(PFTAfterType(Cur, t, ok))
    /\ Same

(* continuations of awaited calls (microtasks) *)
StopContinues(t) ==
    Waiting(t, "stop:afterStopSession") /\ Commit(StopAfterStopSession(Cur, t)) /\ Same
StopBackgroundContinues(t) ==
    Waiting(t, "stopBG:afterStopSession") /\ Commit(StopBackgroundAfterStopSession(Cur, t))
    /\ Same
StopSessionContinues(t) ==
    Waiting(t, "stopSession:afterProcessBuffer")
    /\ Commit(StopSessionAfterProcessBuffer(Cur, t)) /\ Same
StartBackgroundContinues(t) ==
    Waiting(t, "startBG:afterStartSession")
    /\ Commit(StartBackgroundAfterStartSession(Cur, t)) /\ Same
StartContinuesAfterStopBackground(t) ==
    Waiting(t, "start:afterStopBG") /\ Commit(StartAfterStopBackground(Cur, t)) /\ Same
StartContinues(t) ==
    Waiting(t, "start:afterStartSession") /\ Commit(StartAfterStartSession(Cur, t)) /\ Same
ActivateContinues(t) ==
    /\ Waiting(t, "pFT:afterStopBG")
    /\ \E auth \in BOOLEAN : (auth \/ Room) /\ Commit(PFTAfterStopBackground(Cur, t, auth))
    /\ Same
ActivateDone(t) ==
    Waiting(t, "pFT:afterStart") /\ Commit(PFTAfterStart(Cur, t)) /\ Same
DeactivateDone(t) ==
    Waiting(t, "pFT:afterStop") /\ Commit(PFTAfterStop(Cur, t)) /\ Same
TranscriptionHandled(t) ==
    Waiting(t, "hT:afterPFT") /\ Commit(HandleTranscriptionAfterPFT(Cur, t)) /\ Same

Next ==
    \/ Start \/ Stop \/ Toggle \/ StartBackgroundListening \/ StopBackgroundListening
    \/ MicTimerFires \/ MicAudio \/ MicError \/ Tick
    \/ \E t \in TaskIds :
        \/ PermissionAnswered(t) \/ UsageAnswered(t) \/ BackgroundDelayElapsed(t)
        \/ Converted(t) \/ FlushFails(t) \/ Transcribed(t)
        \/ Translated(t) \/ Analyzed(t) \/ NLTyped(t) \/ NLCommandDone(t)
        \/ NLDelayElapsed(t) \/ Typed(t)
        \/ StopContinues(t) \/ StopBackgroundContinues(t) \/ StopSessionContinues(t)
        \/ StartBackgroundContinues(t) \/ StartContinuesAfterStopBackground(t)
        \/ StartContinues(t) \/ ActivateContinues(t) \/ ActivateDone(t)
        \/ DeactivateDone(t) \/ TranscriptionHandled(t)

Spec == Init /\ [][Next]_vars

(* --------------- functions that keep no state between calls ------------ *)
\* the trigger gate is asked about a text
Detects ==
    /\ \E words \in Utterances, padded \in BOOLEAN, enabled \in BOOLEAN,
          caseSensitive \in BOOLEAN :
           call' = DetectCall(words, padded, enabled, caseSensitive)
    /\ UNCHANGED <<progVars, obsVars, provider, triggerEnabled, translationEnabled,
                   crewAIEnabled, nextChunk, opsLeft>>

\* a transcript goes through the standard processing
Processes ==
    /\ \E words \in Dictations, voiceCommandsEnabled \in BOOLEAN :
           call' = StandardCall(words, voiceCommandsEnabled)
    /\ UNCHANGED <<progVars, obsVars, provider, triggerEnabled, translationEnabled,
                   crewAIEnabled, nextChunk, opsLeft>>

\* a command token is handed to the injector
Executes ==
    /\ \E keys \in CommandTokens, platform \in Platforms :
           \E d \in PlatformRuns(platform) : call' = ExecuteCall(keys, platform, d)
    /\ UNCHANGED <<progVars, obsVars, provider, triggerEnabled, translationEnabled,
                   crewAIEnabled, nextChunk, opsLeft>>

CallNext == Detects \/ Processes \/ Executes

CallSpec == Init /\ [][CallNext]_vars

TypeOK ==
    /\ state \in States
    /\ backgroundListening \in BOOLEAN /\ isConnected \in BOOLEAN
    /\ isProcessing \in BOOLEAN /\ isRecording \in BOOLEAN
    /\ micTimers \in 0..(MaxOps + MaxChunks)
    /\ nextChunk \in 1..(MaxChunks + 1) /\ opsLeft \in 0..MaxOps

(* ------------------------------ claims --------------------------------- *)
\* the awaits of a pipeline pass: translation, intent extraction, injection
PassLabels == {"pFT:translate", "pFT:analyze", "pFT:nlType", "pFT:nlCmd", "pFT:nlDelay",
               "pFT:type"}
\* task t is the handling of a transcript, suspended inside its pipeline pass
InPass(t) == /\ tasks[t].stack # <<>> /\ tasks[t].kind = "transcript"
             /\ Head(tasks[t].stack) \in PassLabels
\* task t is the handling of a transcript (handleTranscription is on its stack)
IsTranscript(t) == tasks[t].stack # <<>> /\ tasks[t].kind = "transcript"

\* C1: while the pipeline pass of a transcript received in listening is
\* running, the controller state is processing.
C1_ProcessingDuringPass ==
    \A t \in TaskIds : InPass(t) /\ tasks[t].rx = "listening" => state = "processing"

\* C2: a transcript received in background_listening that contains neither the
\* activate word nor the deactivate phrase is discarded, whatever the trigger
\* configuration: its handling types no text and executes no command.
C2_BackgroundDiscardsNonTrigger ==
    \A t \in TaskIds :
        /\ IsTranscript(t) /\ tasks[t].rx = "background_listening"
        /\ Detect(tasks[t].heard, TRUE, CaseSensitive) = "none"
        => tasks[t].inj = <<>> /\ ~InPass(t)

\* C3: a transcription session is connected only after the authentication,
\* entitlement and quota checks have all been evaluated and passed by the call
\* that opened it.
C3_SessionOnlyAfterChecks == isConnected => sessionChecks = AllChecks

\* C4: a call of start() evaluates authentication, entitlement, quota in that
\* order; it emits at most one of the three signals, the one of the check it
\* evaluated last, and evaluates nothing after a signal; a failed call emitted
\* exactly one signal and a call that went on passed all three checks.
C4_StartChecksShortCircuit ==
    LET SignalOf(check) == CASE check = "auth" -> "authenticationRequired"
                             [] check = "perm" -> "activationRequired"
                             [] check = "quota" -> "tokenLimitExceeded"
        Ordered(r) ==
            /\ \E n \in 0..3 : r.evald = SubSeq(<<"auth", "perm", "quota">>, 1, n)
            /\ Len(r.signals) <= 1
            /\ r.signals # <<>> =>
                   r.evald # <<>> /\ r.signals = <<SignalOf(r.evald[Len(r.evald)])>>
            /\ r.opened \/ r.micStarted => r.evald = <<"auth", "perm", "quota">>
    IN /\ Ordered(lastStart)
       /\ lastStart.outcome = "failed" => Len(lastStart.signals) = 1
       /\ lastStart.outcome = "started" =>
              lastStart.signals = <<>> /\ lastStart.evald = <<"auth", "perm", "quota">>
       /\ \A t \in TaskIds : tasks[t].stack # <<>> => Ordered(tasks[t])

\* C4 witness: a start() whose entitlement check failed after its
\* authentication check had passed.
C4_EntitlementFailed ==
    /\ lastStart.outcome = "failed"
    /\ lastStart.evald = <<"auth", "perm">>
    /\ lastStart.signals = <<"activationRequired">>

\* C5: a call of start() that failed a precondition check has opened no
\* transcription session and has not started the microphone.
C5_FailedStartAllocatesNothing ==
    /\ lastStart.outcome = "failed" => ~lastStart.opened /\ ~lastStart.micStarted
    /\ \A t \in TaskIds :
           tasks[t].stack # <<>> /\ tasks[t].signals # <<>>
           => ~tasks[t].opened /\ ~tasks[t].micStarted

\* C5 witness: a start() from a controller without a session failed its quota
\* check, and there is no session and no microphone capture.
C5_QuotaFailedNothingStarted ==
    /\ lastStart.outcome = "failed"
    /\ lastStart.signals = <<"tokenLimitExceeded">>
    /\ sessionChecks = {} /\ ~isConnected /\ ~isRecording /\ micTimers = 0

\* C6: a stopSession() on a connected session whose buffer was not empty has
\* submitted every chunk of that buffer in a flush by the time it marks the
\* session disconnected and emits close.
C6_StopSessionFlushesBuffer ==
    lastStopSession.called /\ lastStopSession.wasConnected /\ lastStopSession.atEntry # <<>>
    => lastStopSession.flushed

\* C7: every chunk sendAudio accepted while a flush was in flight is still in
\* the buffer or was submitted in the blob of a later flush.
C7_NoAudioLostAcrossFlush ==
    \A c \in duringFlush : c \in Range(audioBuffer) \/ c \in flushedChunks

\* C8: a stopSession() called on a session that an earlier stopSession() has
\* closed emits no close event, starts no flush and changes no session state.
C8_SecondStopSessionIsNoOp ==
    lastStopSession.called /\ ~lastStopSession.wasConnected
    => ~lastStopSession.closed /\ ~lastStopSession.changed

\* C8 witness: stopBackgroundListening() calls stopSession() on the session
\* that an earlier stop() has already closed.
C8_StoppedTwice ==
    /\ lastStopSession.called /\ ~lastStopSession.wasConnected
    /\ backgroundListening /\ state = "idle" /\ ~isConnected
    /\ lastFlush.outcome = "ok"
    /\ \E t \in TaskIds : tasks[t].stack # <<>> /\ tasks[t].kind = "stopBG"

\* C9: a flush whose transcription call failed has emitted an error event, and
\* no flush submits a chunk that an earlier flush has submitted.
C9_FailedFlushEmitsError ==
    /\ lastFlush.outcome = "fail" => lastFlush.errorEmitted
    /\ ~lastFlush.again

\* C10: the failure of a flush leaves a connected session connected and a
\* controller that is listening (or background listening) in its state.
C10_FailureKeepsSession ==
    [][(/\ lastFlush.outcome = "pending" /\ lastFlush'.outcome = "fail"
        /\ isConnected /\ state \in {"listening", "background_listening"})
       => (isConnected' /\ state' = state)]_vars


\* C11: an exception that escapes the processing of a transcript puts the
\* controller in error, is reported to the host by exactly one error event, and
\* starts the cleanup stop(), which stops the microphone.
C11_OneErrorEventPerFailedPass ==
    lastPassError.events # 0 =>
        /\ lastPassError.events = 1
        /\ lastPassError.view.state = "error"
        /\ ~lastPassError.view.recording

\* C12: once a start() that was called in the error state has succeeded, and
\* until the host or a transcript asks for something else, the controller is
\* listening and the session is connected, also when the cleanup stop() of
\* the error is still running.
C12_StartAfterErrorStaysListening ==
    lastStart.live /\ lastStart.from = "error" => state = "listening" /\ isConnected

\* C13: stop() called while idle and start() called while listening change
\* nothing of the controller, the session or the microphone, leave no
\* continuation behind and emit no event.
C13_IllegalCallsAreNoOps ==
    [][(Stop /\ state = "idle") \/ (Start /\ state = "listening")
          => UNCHANGED <<progVars, lastFlush, flushedChunks, sessionChecks,
                         lastStopSession, duringFlush, lastStop, lastPassError>>]_vars

\* start() has been called while an episode it did not disturb was running
C13_StartedWhileListening ==
    /\ lastStart.outcome = "noop" /\ lastStart.signals = <<>>
    /\ lastStart.live /\ state = "listening"

\* C14: when a start() called in idle or in background_listening has passed
\* its checks and returns, the accumulator is empty, the session is connected,
\* the microphone is started, the state is listening and background listening
\* is off.
C14_SuccessfulStartPostcondition ==
    lastStart.outcome = "started" /\ lastStart.from \in {"idle", "background_listening"} =>
        LET v == lastStart.view[1]
        IN /\ v.accEmpty /\ v.connected /\ v.mic
           /\ v.state = "listening" /\ ~v.background

\* a start() called in background_listening has passed its three checks and
\* has returned
C14_StartedFromBackground ==
    /\ lastStart.outcome = "started" /\ lastStart.from = "background_listening"
    /\ lastStart.evald = <<"auth", "perm", "quota">>
    /\ lastStart.live /\ state = "listening" /\ ~backgroundListening

\* C15: when a stop() that was called in a state other than idle completes,
\* the state is idle, the session is disconnected and, unless the microphone
\* has been asked to start again since stop() stopped it, the microphone is
\* not capturing.
C15_StopCompletesIdleStoppedClosed ==
    lastStop.done =>
        /\ lastStop.view.state = "idle"
        /\ ~lastStop.view.connected
        /\ lastStop.micAskedSince \/ ~lastStop.view.recording

\* C16: a transcript delivered after a stop() has completed and while the
\* controller is idle is not processed: its handling types no text, executes
\* no command and enters no pipeline pass.
C16_NoTypingAfterStop ==
    \A t \in TaskIds :
        IsTranscript(t) /\ tasks[t].rx = "idle" /\ lastStop.done =>
            tasks[t].inj = <<>> /\ ~InPass(t)

\* task t handles a transcript in which the trigger gate, enabled, has found
\* the activate word while the controller was in background_listening
IsActivation(t) ==
    /\ IsTranscript(t) /\ tasks[t].rx = "background_listening" /\ triggerEnabled
    /\ Detect(tasks[t].heard, triggerEnabled, CaseSensitive) = "activate"

\* C17: the handling of an activate transcript received in
\* background_listening never types it; when its start() has returned without
\* an error, so that triggerActivated is emitted, the state is listening and
\* background listening is off.
C17_ActivateStartsListening ==
    \A t \in TaskIds :
        IsActivation(t) =>
            /\ tasks[t].inj = <<>> /\ ~InPass(t)
            /\ tasks[t].snap # <<>> =>
                   tasks[t].snap[1].state = "listening" /\ ~tasks[t].snap[1].background

\* an activate transcript whose start() passed the three checks has emitted
\* triggerActivated
C17_Activated ==
    \E t \in TaskIds :
        /\ IsActivation(t) /\ tasks[t].snap # <<>>
        /\ tasks[t].evald = <<"auth", "perm", "quota">> /\ tasks[t].signals = <<>>

\* task t handles a transcript that was received in listening and contains
\* the deactivate phrase
IsDeactivation(t) ==
    /\ IsTranscript(t) /\ tasks[t].rx = "listening"
    /\ Detect(tasks[t].heard, TRUE, CaseSensitive) = "deactivate"
\* the handling of task t has called stop() and has passed nothing to
\* translation, intent extraction or injection
StoppedInsteadOfTyped(t) ==
    /\ tasks[t].inj = <<>> /\ Range(tasks[t].stack) \cap PassLabels = {}
    /\ "pFT:afterStop" \in Range(tasks[t].stack) \/ tasks[t].stack = <<"hT:afterPFT">>

\* C18 (as amended): in listening and with trigger detection enabled, a
\* transcript containing the deactivate phrase makes the controller call
\* stop() and is never passed to translation, intent extraction or injection.
C18_DeactivateStopsWhenEnabled ==
    \A t \in TaskIds : IsDeactivation(t) /\ triggerEnabled => StoppedInsteadOfTyped(t)

\* C18 (as stated): in listening, a transcript containing the deactivate
\* phrase makes the controller call stop() and is never passed to
\* translation, intent extraction or injection, whatever the configuration.
C18_DeactivateAlwaysStops ==
    \A t \in TaskIds : IsDeactivation(t) => StoppedInsteadOfTyped(t)

\* the deactivate phrase, heard in listening with detection enabled, has made
\* the controller call stop()
C18_DeactivateHeard ==
    \E t \in TaskIds :
        /\ IsDeactivation(t) /\ triggerEnabled
        /\ "pFT:afterStop" \in Range(tasks[t].stack)

\* C19: every fragment typed for a transcript received in listening begins
\* with a space exactly when the accumulator holds text typed before it, i.e.
\* when it is not the first fragment of the episode or after an "enter".
C19_SpacePrefixIffAccumulated ==
    \A t \in TaskIds :
        IsTranscript(t) /\ tasks[t].rx = "listening" =>
            \A i \in 1..Len(tasks[t].inj) :
                LET e == tasks[t].inj[i]
                IN e.kind = "text" => ((Head(e.val) = " ") <=> e.acc)

\* C20: when a stop() that was called in a state other than idle completes,
\* the accumulator is empty.
C20_AccumulatorEmptyAfterStop ==
    lastStop.done => lastStop.view.accEmpty

\* C21: a chunk delivered by the microphone is taken into the session buffer
\* (or into the flush it triggers) only if the controller is listening or
\* background_listening and the session is connected; otherwise the session
\* buffer and the flushes are as before.
C21_ChunkAcceptedOnlyWhenListening ==
    [][MicAudio =>
          LET accepted == \/ nextChunk \in Range(audioBuffer')
                          \/ nextChunk \in flushedChunks'
          IN /\ accepted <=> state \in {"listening", "background_listening"} /\ isConnected
             /\ ~accepted => UNCHANGED <<audioBuffer, bufferDue, isProcessing, lastFlush,
                                         flushedChunks, tasks>>]_vars

\* the microphone has delivered chunks to an idle controller and none of them
\* was buffered or flushed
C21_ChunkDroppedWhileIdle ==
    /\ nextChunk > 1 /\ state = "idle" /\ isRecording
    /\ audioBuffer = <<>> /\ flushedChunks = {}

\* C22: the session buffer changes only by a chunk appended at its end or by
\* being emptied, and the blob a flush submits is the buffer of its window,
\* with the chunk that triggered the flush at its end: the chunks accepted in
\* the window, each once, in arrival order.
C22_BlobIsWindowInArrivalOrder ==
    [][LET grown == Append(audioBuffer, nextChunk)
           begun == lastFlush.outcome # "pending" /\ lastFlush'.outcome = "pending"
       IN /\ audioBuffer' \in {audioBuffer, <<>>} \/ (MicAudio /\ audioBuffer' = grown)
          /\ begun => /\ audioBuffer' = <<>>
                      /\ lastFlush'.blob = IF MicAudio THEN grown ELSE audioBuffer
                      /\ lastFlush'.blob # <<>>]_vars

\* a flush has submitted a window of two chunks
C22_TwoChunkWindowFlushed ==
    /\ Len(lastFlush.blob) = 2 /\ lastFlush.blob[1] < lastFlush.blob[2]
    /\ Range(lastFlush.blob) \subseteq flushedChunks

\* C23: startSession() called on a connected session fails, so a start()
\* that has returned without an error has opened the session itself.
C23_StartSessionOnConnectedFails ==
    lastStart.outcome = "started" => lastStart.opened

\* the text of the call, normalised as the detector is configured
Normalised(x) == IF call.caseSensitive THEN x ELSE ToLower(x)

\* C24: detect() returns deactivate for every text that contains the
\* deactivate phrase, also when the activate word is in it as a whole word;
\* it returns activate only when one of the words of the text is the activate
\* word, never for a word that merely contains it; it returns null when
\* detection is disabled, and only then or when neither is in the text.
C24_DeactivateFirstWholeWordOnly ==
    call.fn = "detect" =>
        LET phraseIn == ContainsPhrase(Normalised(Trim(call.text)),
                                       Normalised(DeactivatePhrase))
            n == Len(call.words)
        IN /\ ~call.enabled => call.result = "none"
           /\ call.enabled /\ phraseIn => call.result = "deactivate"
           /\ call.result = "deactivate" => phraseIn
           /\ call.result = "activate" =>
                  \E i \in 1..n : ToLower(call.words[i]) = ToLower(TriggerWord)
           /\ call.result = "none" /\ call.enabled =>
                  \A i \in 1..n : Normalised(call.words[i]) # Normalised(TriggerWord)

\* the gate was asked about the deactivate phrase, whose first word is the
\* activate word, and has answered deactivate
C24_DeactivateWithActivateWord ==
    /\ call.fn = "detect" /\ call.enabled /\ ~call.caseSensitive
    /\ call.words = <<TriggerWord, <<"c","l","o","s","e">> >>
    /\ call.result = "deactivate"

\* C25: with caseSensitive = true the gate answers deactivate only for a text
\* that holds the deactivate phrase in the configured case and activate only
\* for a text one of whose words is the activate word in the configured case;
\* with caseSensitive = false the spelling of the text makes no difference.
C25_CasePerConfiguration ==
    call.fn = "detect" /\ call.enabled =>
        LET n == Len(call.words)
            lower == Detect(ToLower(call.text), TRUE, FALSE)
        IN /\ ~call.caseSensitive => call.result = lower
           /\ call.caseSensitive /\ call.result = "deactivate" =>
                  ContainsPhrase(call.text, DeactivatePhrase)
           /\ call.caseSensitive /\ call.result = "activate" =>
                  \E i \in 1..n : call.words[i] = TriggerWord

\* C26: the text the standard processing types for a transcript holds no command
\* phrase, and every command phrase spoken in the transcript is executed: a
\* transcript with two command words yields two command tokens.
C26_TypedTextHoldsNoCommandPhrase ==
    call.fn = "standard" /\ call.voiceCommandsEnabled =>
        LET spoken == {i \in 1..Len(call.words) : CommandToken(StripPunct(call.words[i])) # ""}
        IN /\ \A k \in 1..Len(CommandWords) :
                  ~ContainsPhrase(ToLower(call.result.typed), CommandWords[k])
           /\ Len(call.result.commands) = Cardinality(spoken)

\* C27: when the backend call fails or its answer cannot be parsed, analyze
\* returns the transcript with no commands, and the controller goes on to type
\* that transcript (after a space when text was typed before) and runs no command.
C27_FailedExtractionTypesTranscript ==
    [][\A t \in TaskIds : \A response \in FailedResponses :
          LET after == PFTAfterAnalyze(Cur, t, Analyze(tasks[t].text, response))
              typing(task) == /\ task.stack # <<>> /\ Head(task.stack) = "pFT:nlType"
                              /\ task.toType = TextToType(Cur, tasks[t].text)
                              /\ task.cmds = <<>>
          IN (Macro /\ Waiting(t, "pFT:analyze") /\ Commit(after))
             => /\ Analyze(tasks[t].text, response) = [text |-> tasks[t].text, commands |-> <<>>]
                /\ typing(after.tasks[t])
                /\ \E u \in TaskIds : typing(tasks'[u])]_vars
\* a transcript whose extraction fell back to the transcript itself was typed
C27_FallbackTyped ==
    \E t \in TaskIds :
        /\ IsTranscript(t) /\ crewAIEnabled
        /\ tasks[t].cmds = <<>>
        /\ \E k \in 1..Len(tasks[t].inj) :
               /\ tasks[t].inj[k].kind = "text"
               /\ Trim(tasks[t].inj[k].val) = tasks[t].text

\* C28: a microphone failure reported by the capture window (device absent,
\* permission denied, device busy) never puts the controller in error: the
\* handler leaves it idle.
C28_MicrophoneFailureEndsIdle ==
    [][\A kind \in MicErrorKinds :
          (/\ Macro /\ Room /\ (isRecording \/ micTimers > 0)
           /\ Commit(MicrophoneError(Cur, kind)))
          => state' = "idle"]_vars

\* C29: on the daemon-dependent path one injected command attempts the daemon
\* start at most once and runs the command at most twice.
C29_OneDaemonStartOneRetry ==
    call.fn = "execute" /\ call.platform = "wayland" =>
        call.result.starts <= 1 /\ call.result.execs <= 2

\* C30: executeCommand with a token that holds an unknown key name sends
\* nothing to the operating system and returns without error.
C30_UnknownTokenIgnored ==
    call.fn = "execute" /\ (\E i \in 1..Len(call.keys) : call.keys[i] = "foo") =>
        /\ call.result.pressed = <<>>
        /\ call.result.execs = 0
        /\ call.result.outcome = "resolved"

\* C31: at most one pipeline pass is suspended at a time: no second transcript
\* is in translation, extraction or injection while the pass of an earlier
\* transcript waits for a backend call or an injection.
C31_OnePassAtATime ==
    \A t, u \in TaskIds : InPass(t) /\ InPass(u) => t = u

\* C32: at most one buffer flush is in flight at a time, and while one is the
\* processing flag is set; audio that arrives during a flush is only buffered.
C32_OneFlushInFlight ==
    LET flushing(t) == \E i \in 1..Len(tasks[t].stack) :
                           tasks[t].stack[i] \in {"processBuffer:convert",
                                                  "processBuffer:transcribe"}
    IN /\ \A t, u \in TaskIds : flushing(t) /\ flushing(u) => t = u
       /\ (\E t \in TaskIds : flushing(t)) <=> isProcessing
\* a chunk arrived while a flush was in flight and waits in the buffer
C32_BufferedDuringFlush ==
    /\ isProcessing
    /\ \E c \in duringFlush : c \in Range(audioBuffer)

\* C33: within one pipeline pass no text is typed once a command has been
\* executed, and the commands executed so far, followed by those still to run,
\* are the command list of the extraction in its order.
C33_TextThenCommandsInOrder ==
    \A t \in TaskIds : IsTranscript(t) =>
        LET inj == tasks[t].inj
            executed == [i \in 1..Len(SelectSeq(inj, LAMBDA e : e.kind = "cmd")) |->
                            SelectSeq(inj, LAMBDA e : e.kind = "cmd")[i].val]
            pending == IF Head(tasks[t].stack) = "pFT:nlDelay" THEN Tail(tasks[t].cmds)
                       ELSE tasks[t].cmds
        IN /\ \A i, j \in 1..Len(inj) : inj[i].kind = "cmd" /\ inj[j].kind = "text" => j < i
           /\ Head(tasks[t].stack) \in {"pFT:nlCmd", "pFT:nlDelay"} =>
                  \E a \in Analyses(tasks[t].text) : executed \o pending = a.commands

\* C37: the handling of one transcript types its text at most once.
C37_TextInjectedAtMostOnce ==
    \A t \in TaskIds : IsTranscript(t) =>
        \A i, j \in 1..Len(tasks[t].inj) :
            tasks[t].inj[i].kind = "text" /\ tasks[t].inj[j].kind = "text" => i = j

\* C34: when no operation is in progress the backgroundListening flag is set
\* exactly when the state is background_listening.
C34_BackgroundFlagMatchesState ==
    (\A t \in TaskIds : tasks[t].stack = <<>>) =>
        (backgroundListening <=> state = "background_listening")

\* C35: when the controller is idle and no operation is in progress the
\* microphone neither records nor has a pending start timer.
C35_IdleMicrophoneOff ==
    (state = "idle" /\ \A t \in TaskIds : tasks[t].stack = <<>>) =>
        (~isRecording /\ micTimers = 0)

\* C36: when the controller is idle and no operation is in progress the
\* transcription session is disconnected.
C36_IdleSessionClosed ==
    (state = "idle" /\ \A t \in TaskIds : tasks[t].stack = <<>>) => ~isConnected

\* C38: a start() that fails its authentication check while background
\* listening is active leaves the state background_listening, the session
\* connected and the microphone as it was.
C38_FailedStartKeepsBackground ==
    [][(/\ state = "background_listening" /\ backgroundListening /\ isConnected
        /\ Macro /\ Room
        /\ Commit(StartEntry(Spawn(Cur, "start"), FreeSlot(Cur), FALSE)))
       => /\ state' = "background_listening"
          /\ isConnected' /\ backgroundListening'
          /\ isRecording' = isRecording /\ micTimers' = micTimers]_vars

\* C39: a stopSession() that resumes after its final flush, and then emits
\* 'close', finds the session still connected: no session is closed more
\* often than it was opened.
C39_CloseOnlyAnOpenSession ==
    [][\A t \in TaskIds :
          (Waiting(t, "stopSession:afterProcessBuffer")
           /\ Commit(StopSessionAfterProcessBuffer(Cur, t)))
          => isConnected]_vars

\* C40: 'started' and 'stopped' alternate, 'started' first: stop() emits
\* 'stopped' only when a 'started' waits for it, and start() emits 'started'
\* only when none does.
C40_StartedStoppedAlternate ==
    [][\A t \in TaskIds :
          /\ (Waiting(t, "stop:afterStopSession") /\ Commit(StopAfterStopSession(Cur, t)))
                 => lastStop.owed
          /\ (Waiting(t, "start:afterStartSession") /\ Commit(StartAfterStartSession(Cur, t)))
                 => ~lastStop.owed]_vars
====
